---- MODULE Spec2Model ----
(***************************************************************************)
(* Model of `tdt seed` (src/tdt/tdt.py): configuration resolution, the     *)
(* ordered generation of the project artifacts into outdir, and the        *)
(* optional two-step git initialisation.                                   *)
(*                                                                         *)
(* Conventions:                                                            *)
(*  - a Python Optional value is None == <<>> or Some(v) == <<v>>;         *)
(*  - a YAML document is a function from keys to YAML scalars, a scalar    *)
(*    being YNull, a string YStr(s) or a boolean YBool(b);                 *)
(*  - fs is the tree below outdir: dirs is the set of directories that     *)
(*    exist ("." is outdir itself), fs maps each file path to its content; *)
(*    a path is <<directory, file name>>, relative to outdir, and tgts     *)
(*    holds the same paths.                                                *)
(***************************************************************************)
EXTENDS Integers, Sequences, FiniteSets, TLC

VARIABLES pc, error, repoArgs, repo, config, title, user, project, clean,
          dirs0, fs0, dirs, fs, tgts, skipgit, env, gitlog, stdout

vars == <<pc, error, repoArgs, repo, config, title, user, project, clean,
          dirs0, fs0, dirs, fs, tgts, skipgit, env, gitlog, stdout>>

\* ------------------------------------------------------------------ bounds
MaxRepoArgs == 2
MaxPre == 1

\* ------------------------------------------------------------ Python values
None == <<>>
Some(v) == <<v>>
YNull == <<"null">>
YStr(s) == <<"str", s>>
YBool(b) == <<"bool", IF b THEN "true" ELSE "false">>
Truthy(o) == o # None /\ o # Some("")
\* "{}".format(x) of an Optional[str]
Fmt(o) == IF o = None THEN "None" ELSE o[1]

EmptyFs == [p \in {} |-> ""]
Range(s) == {s[i] : i \in DOMAIN s}
Write(f, path, content) == [p \in (DOMAIN f) \cup {path} |-> IF p = path THEN content ELSE f[p]]

RECURSIVE Join(_)
Join(segs) == IF segs = <<>> THEN "" ELSE Head(segs) \o Join(Tail(segs))

\* str.replace on a text held as segments, each occurrence of old a segment
Replace(segs, old, new) == [i \in DOMAIN segs |-> IF segs[i] = old THEN new ELSE segs[i]]

\* ------------------------------------------------------------------ inputs
RepoNames == {"Ro", ""}
RepoArgLists == UNION {[1..n -> RepoNames] : n \in 0..MaxRepoArgs}

StrKeys == {"id", "title", "git_user", "repo", "github_org", "git_main_branch",
            "license", "description", "citation"}
OptKeys == {"author", "creators"}
BoolKeys == {"export_project_yaml"}
FieldKeys == StrKeys \cup OptKeys \cup BoolKeys

\* values a configuration file may give to the keys it supplies
FileValues(k) ==
    CASE k = "id" -> {YStr(""), YStr("CCN1"), YStr("import")}
      [] k = "title" -> {YStr("Tf")}
      [] k = "repo" -> {YStr("Rf")}
      [] k = "github_org" -> {YStr("Of")}
      [] k = "description" -> {YStr(""), YStr("D")}
      [] k = "export_project_yaml" -> {YBool(TRUE)}
      [] OTHER -> {}
FileKeys == {"id", "title", "repo", "github_org", "description", "export_project_yaml"}
ConfigDocs == UNION {{d \in [ks -> UNION {FileValues(k) : k \in ks}] :
                          \A k \in ks : d[k] \in FileValues(k)} : ks \in SUBSET FileKeys}
Configs == {None} \cup {Some(d) : d \in ConfigDocs}
TitleOpts == {None, Some(""), Some("To")}
UserOpts == {None, Some("Oo")}
GitNameOpts == {None, Some("n")}
GitEmailOpts == {None, Some("e")}

PrePaths == {<<".", "notes.txt">>, <<".", "README.md">>, <<"input_data", "old.csv">>}
PreSets == {s \in SUBSET PrePaths : Cardinality(s) <= MaxPre}
OldContent(p) == "old " \o p[2]

\* --------------------------------------------------------- TaxonomyProject
TaxonomyProject ==
    [id |-> Some(""), title |-> "", git_user |-> "", repo |-> "", github_org |-> "",
     git_main_branch |-> "main",
     license |-> "https://creativecommons.org/licenses/unspecified",
     export_project_yaml |-> FALSE, description |-> "None",
     author |-> None, creators |-> None, citation |-> None]

\* dacite.from_dict(TaxonomyProject, obj): keys of obj that are fields are
\* type-checked and taken, the other fields keep their defaults
WellTyped(k, v) ==
    CASE k \in StrKeys -> v[1] = "str"
      [] k \in OptKeys -> v[1] \in {"str", "null"}
      [] OTHER -> v[1] = "bool"
FieldOf(k, v) ==
    CASE k \in {"id", "citation"} \cup OptKeys -> IF v = YNull THEN None ELSE Some(v[2])
      [] k \in BoolKeys -> v[2] = "true"
      [] OTHER -> v[2]
from_dict(obj) ==
    IF \A k \in DOMAIN obj \cap FieldKeys : WellTyped(k, obj[k])
      THEN [ok |-> TRUE,
            project |-> [k \in FieldKeys |->
                            IF k \in DOMAIN obj THEN FieldOf(k, obj[k])
                            ELSE TaxonomyProject[k]]]
      ELSE [ok |-> FALSE, project |-> TaxonomyProject]

\* load_config with the file's value winning over a non-empty override
load_config_FileWins(config_file, ttl, org, rp) ==
    LET r == IF config_file = None THEN [ok |-> TRUE, project |-> TaxonomyProject]
             ELSE from_dict(config_file[1])
        p0 == r.project
        p1 == IF Truthy(ttl) /\ p0.title = "" THEN [p0 EXCEPT !.title = ttl[1]] ELSE p0
        p2 == IF Truthy(org) /\ p1.github_org = "" THEN [p1 EXCEPT !.github_org = org[1]] ELSE p1
        p3 == IF Truthy(rp) /\ p2.repo = "" THEN [p2 EXCEPT !.repo = rp[1]] ELSE p2
    IN [ok |-> r.ok, project |-> p3]

\* Generator.load_config
load_config(config_file, ttl, org, rp) ==
    LET r == IF config_file = None THEN [ok |-> TRUE, project |-> TaxonomyProject]
             ELSE from_dict(config_file[1])
        p0 == r.project
        p1 == IF Truthy(ttl) THEN [p0 EXCEPT !.title = ttl[1]] ELSE p0
        p2 == IF Truthy(org) THEN [p1 EXCEPT !.github_org = org[1]] ELSE p1
        p3 == IF Truthy(rp) THEN [p2 EXCEPT !.repo = rp[1]] ELSE p2
    IN [ok |-> r.ok, project |-> p3]

\* seed: if project.id is None or project.id == "": project.id = repo
id_fallback(p, rp) == IF p.id = None \/ p.id = Some("") THEN [p EXCEPT !.id = rp] ELSE p

\* save_project_yaml: to_json, json.loads, yaml.dump; every field is a key
ToYaml(k, v) ==
    CASE k \in {"id", "citation"} \cup OptKeys -> IF v = None THEN YNull ELSE YStr(v[1])
      [] k \in BoolKeys -> YBool(v)
      [] OTHER -> YStr(v)
save_project_yaml(p) == [k \in FieldKeys |-> ToYaml(k, p[k])]

P == project[1]
X == Fmt(P.id)

\* -------------------------------------------------------------- resources
TaxonomyIdToken == "{taxonomy_id}"
Resource(name) ==
    CASE name = "table.tsv" -> <<"table\tpath\n", TaxonomyIdToken, "\tcuration_tables/",
                                 TaxonomyIdToken, ".tsv\n">>
      [] name = "column.tsv" -> <<"table\tcolumn\n", TaxonomyIdToken, "\tcell_set\n">>
      [] OTHER -> <<"<resource ", name, ">">>

\* ------------------------------------------------------------------- paths
ProjectYamlPath == <<".", "project.yaml">>
ConfigEchoPath(x) == <<".", x \o "_project_config.yaml">>
FolderReadme(folder) == <<folder, "README.md">>
PurlPath(x) == <<"purl", x \o ".yml">>
ReadmePath == <<".", "README.md">>
OutputPath(x) == <<".", x \o ".json">>
RunScriptPath == <<".", "run.sh">>
MakefilePath == <<".", "Makefile">>
OntodevMakefilePath == <<".", "ontodev.Makefile">>
CurationPath(name) == <<"curation_tables", name>>

\* ------------------------------------------------------------ file contents
RawUrl(p) == "https://raw.githubusercontent.com/" \o p.github_org \o "/" \o p.repo
                 \o "/main/" \o Fmt(p.id) \o ".json"
PurlLines(p) ==
    <<"# PURL configuration for http://purl.bican.org/taxonomy/" \o Fmt(p.id),
      "",
      "idspace: " \o Fmt(p.id),
      "base_url: /taxonomy/" \o Fmt(p.id),
      "",
      "products:",
      "- " \o Fmt(p.id) \o ".json: " \o RawUrl(p),
      "",
      "base_redirect: https://github.com/" \o p.github_org \o "/" \o p.repo,
      "",
      "entries:",
      "",
      "# http://purl.bican.org/taxonomy/" \o Fmt(p.id) \o "/" \o Fmt(p.id) \o ".json",
      "- exact: /" \o Fmt(p.id) \o ".json",
      "  replacement: " \o RawUrl(p)>>
PurlText(p) == Join([i \in DOMAIN PurlLines(p) |-> PurlLines(p)[i] \o "\n"])

ReadmeDesc(p) == IF p.description # "" THEN p.description ELSE p.title
ReadmeText(p) == "# " \o p.title \o "(" \o Fmt(p.id) \o ")\n\n" \o ReadmeDesc(p) \o "."

FolderReadmeText(ttl, desc) == "# " \o ttl \o "\n\n" \o desc

\* ---------------------------------------------------------------- the run
Init ==
    /\ pc = "start"
    /\ error = ""
    /\ repoArgs = <<>>
    /\ repo = None
    /\ config = None
    /\ title = None
    /\ user = None
    /\ project = None
    /\ clean = FALSE
    /\ \E exists \in BOOLEAN : \E pre \in PreSets :
         /\ (~exists => pre = {})
         /\ dirs0 = IF exists THEN {"."} \cup {p[1] : p \in pre} ELSE {}
         /\ fs0 = [p \in pre |-> OldContent(p)]
    /\ dirs = dirs0
    /\ fs = fs0
    /\ tgts = <<>>
    /\ skipgit = FALSE
    /\ env = [GIT_AUTHOR_NAME |-> None, GIT_COMMITTER_NAME |-> None,
              GIT_AUTHOR_EMAIL |-> None, GIT_COMMITTER_EMAIL |-> None]
    /\ gitlog = <<>>
    /\ stdout = <<>>

Fail(msg) == pc' = "failed" /\ error' = msg

\* ParseArgs without the check for more than one repo
ParseArgs_FirstOnly ==
    /\ pc = "start"
    /\ \E args \in RepoArgLists :
         /\ repoArgs' = args
         /\ repo' = IF Len(args) > 0 THEN Some(args[1]) ELSE None
    /\ pc' = "parsed"
    /\ tgts' = <<>>
    /\ UNCHANGED <<error, config, title, user, project, clean, dirs0, fs0, dirs, fs,
                   skipgit, env, gitlog, stdout>>

\* seed, lines 180-187: the positional repo arguments
ParseArgs ==
    /\ pc = "start"
    /\ \E args \in RepoArgLists :
         /\ repoArgs' = args
         /\ IF Len(args) > 0
              THEN IF Len(args) > 1
                     THEN Fail("max one repo") /\ repo' = repo
                     ELSE repo' = Some(args[1]) /\ pc' = "parsed" /\ error' = error
              ELSE repo' = None /\ pc' = "parsed" /\ error' = error
    /\ tgts' = <<>>
    /\ UNCHANGED <<config, title, user, project, clean, dirs0, fs0, dirs, fs,
                   skipgit, env, gitlog, stdout>>

\* seed, lines 188-194: load_config and the id fallback
Resolve ==
    /\ pc = "parsed"
    /\ \E c \in Configs, t \in TitleOpts, u \in UserOpts :
         /\ config' = c
         /\ title' = t
         /\ user' = u
         /\ LET r == load_config(c, t, u, repo)
            IN IF r.ok
                 THEN /\ project' = Some(id_fallback(r.project, repo))
                      /\ pc' = "resolved"
                      /\ error' = error
                 ELSE Fail("config") /\ project' = project
    /\ UNCHANGED <<repoArgs, repo, clean, dirs0, fs0, dirs, fs, tgts,
                   skipgit, env, gitlog, stdout>>

\* PrepareOutdir with the rmtree left out
PrepareOutdir_NoRemove ==
    /\ pc = "resolved"
    /\ \E c \in BOOLEAN : clean' = c
    /\ dirs' = dirs \cup {"."}
    /\ fs' = fs
    /\ pc' = "outdir"
    /\ UNCHANGED <<error, repoArgs, repo, config, title, user, project, dirs0, fs0,
                   tgts, skipgit, env, gitlog, stdout>>

\* seed, lines 195-201: --clean and the creation of outdir
PrepareOutdir ==
    /\ pc = "resolved"
    /\ \E c \in BOOLEAN :
         /\ clean' = c
         /\ LET removed == c /\ "." \in dirs
                d1 == IF removed THEN {} ELSE dirs
                f1 == IF removed THEN EmptyFs ELSE fs
            IN /\ dirs' = d1 \cup {"."}
               /\ fs' = f1
    /\ pc' = "outdir"
    /\ UNCHANGED <<error, repoArgs, repo, config, title, user, project, dirs0, fs0,
                   tgts, skipgit, env, gitlog, stdout>>

\* seed, lines 202-211: project.yaml and the config echo
WriteProjectFiles ==
    /\ pc = "outdir"
    /\ LET f1 == IF P.export_project_yaml
                   THEN Write(fs, ProjectYamlPath, save_project_yaml(P)) ELSE fs
           t1 == IF P.export_project_yaml THEN Append(tgts, ProjectYamlPath) ELSE tgts
       IN /\ tgts' = Append(t1, ConfigEchoPath(X))
          /\ fs' = Write(f1, ConfigEchoPath(X),
                         IF config # None THEN config[1] ELSE save_project_yaml(P))
    /\ pc' = "input_data"
    /\ UNCHANGED <<error, repoArgs, repo, config, title, user, project, clean, dirs0,
                   fs0, dirs, skipgit, env, gitlog, stdout>>

\* create_folder; an absent title or description is the empty string
create_folder(folder_name, ttl, desc) ==
    /\ dirs' = dirs \cup {folder_name}
    /\ IF ttl # "" /\ desc # ""
         THEN /\ fs' = Write(fs, FolderReadme(folder_name), FolderReadmeText(ttl, desc))
              /\ tgts' = Append(tgts, FolderReadme(folder_name))
         ELSE UNCHANGED <<fs, tgts>>

Frame == UNCHANGED <<error, repoArgs, repo, config, title, user, project, clean, dirs0,
                     fs0, skipgit, env, gitlog, stdout>>

\* create_folder("input_data") called without title and description
CreateInputData_NoReadme ==
    /\ pc = "input_data"
    /\ create_folder("input_data", "", "")
    /\ pc' = "curation_tables"
    /\ Frame

\* seed, line 214
CreateInputData ==
    /\ pc = "input_data"
    /\ create_folder("input_data", "Input Files", "Taxonomy data files.")
    /\ pc' = "curation_tables"
    /\ Frame

\* seed, line 215
CreateCurationTables ==
    /\ pc = "curation_tables"
    /\ create_folder("curation_tables", "Curation Tables", "CCN2 taxonomy curation tables.")
    /\ pc' = "purl"
    /\ Frame

PurlDescription ==
    "BICAN Permanent URLs sample configuration file. "
    \o "Please make a pull request to place this file in [BICAN PURLs taxonomy configuration folder]"
    \o "(https://github.com/hkir-dev/purl.bican.org/tree/main/config/taxonomy)."

\* seed, lines 216-218
CreatePurl ==
    /\ pc = "purl"
    /\ create_folder("purl", "PURL Configuration", PurlDescription)
    /\ pc' = "purl_config"
    /\ Frame

create_purl_config ==
    /\ pc = "purl_config"
    /\ fs' = Write(fs, PurlPath(X), PurlText(P))
    /\ tgts' = Append(tgts, PurlPath(X))
    /\ pc' = "readme"
    /\ UNCHANGED dirs
    /\ Frame

create_readme ==
    /\ pc = "readme"
    /\ fs' = Write(fs, ReadmePath, ReadmeText(P))
    /\ tgts' = Append(tgts, ReadmePath)
    /\ pc' = "output_file"
    /\ UNCHANGED dirs
    /\ Frame

create_output_file ==
    /\ pc = "output_file"
    /\ fs' = Write(fs, OutputPath(X), "{}")
    /\ tgts' = Append(tgts, OutputPath(X))
    /\ pc' = "run_script"
    /\ UNCHANGED dirs
    /\ Frame

create_run_script ==
    /\ pc = "run_script"
    /\ tgts' = Append(tgts, RunScriptPath)
    /\ fs' = Write(fs, RunScriptPath, Join(Resource("scripts/run.sh")))
    /\ pc' = "makefile"
    /\ UNCHANGED dirs
    /\ Frame

\* create_makefile with the two copies in the other order
create_makefile_Swapped ==
    /\ pc = "makefile"
    /\ tgts' = tgts \o <<OntodevMakefilePath, MakefilePath>>
    /\ fs' = Write(Write(fs, MakefilePath, Join(Resource("Makefile"))),
                   OntodevMakefilePath, Join(Resource("ontodev.Makefile")))
    /\ pc' = "ontodev_tables"
    /\ UNCHANGED dirs
    /\ Frame

create_makefile ==
    /\ pc = "makefile"
    /\ tgts' = tgts \o <<MakefilePath, OntodevMakefilePath>>
    /\ fs' = Write(Write(fs, MakefilePath, Join(Resource("Makefile"))),
                   OntodevMakefilePath, Join(Resource("ontodev.Makefile")))
    /\ pc' = "ontodev_tables"
    /\ UNCHANGED dirs
    /\ Frame

\* the verbatim copies of create_ontodev_tables, in the order of the calls
VerbatimTables == <<"datatype.tsv", "prefix.tsv", "import.tsv", "import_config.tsv">>

RECURSIVE CopyAll(_, _)
CopyAll(f, copies) ==
    IF copies = <<>> THEN f
    ELSE CopyAll(Write(f, Head(copies)[1], Join(Resource(Head(copies)[2]))), Tail(copies))

OntodevCopies(x) ==
    [i \in 1..Len(VerbatimTables) |-> <<CurationPath(VerbatimTables[i]), VerbatimTables[i]>>]
    \o <<<<CurationPath(x \o "_config.tsv"), "taxonomy_config.tsv">>>>

\* content.replace("{taxonomy_id}", project.id) raises on an id of None,
\* before the first table is written
create_ontodev_tables ==
    /\ pc = "ontodev_tables"
    /\ IF P.id = None
         THEN Fail("replace() argument 2 must be str, not None") /\ UNCHANGED <<fs, tgts>>
         ELSE LET f1 == Write(fs, CurationPath("table.tsv"),
                              Join(Replace(Resource("table.tsv"), TaxonomyIdToken, P.id[1])))
                  f2 == Write(f1, CurationPath("column.tsv"),
                              Join(Replace(Resource("column.tsv"), TaxonomyIdToken, P.id[1])))
                  cp == OntodevCopies(X)
              IN /\ fs' = CopyAll(f2, cp)
                 /\ tgts' = tgts \o <<CurationPath("table.tsv"), CurationPath("column.tsv")>>
                                 \o [i \in DOMAIN cp |-> cp[i][1]]
                 /\ pc' = "written"
                 /\ error' = error
    /\ UNCHANGED <<repoArgs, repo, config, title, user, project, clean, dirs0, fs0, dirs,
                   skipgit, env, gitlog, stdout>>

\* t.replace(outdir, ".", 1) of a path held relative to outdir
RelPath(t) == "./" \o (IF t[1] = "." THEN t[2] ELSE t[1] \o "/" \o t[2])

\* runcmd without the check of the return code
runcmd_IgnoreStatus(cmd, rc, next) ==
    /\ gitlog' = Append(gitlog, [cmd |-> cmd, rc |-> rc])
    /\ pc' = next
    /\ error' = error

\* runcmd: the command is recorded with its exit status; non-zero raises
runcmd(cmd, rc, next) ==
    /\ gitlog' = Append(gitlog, [cmd |-> cmd, rc |-> rc])
    /\ IF rc # 0 THEN Fail("Failed: " \o cmd[1]) ELSE pc' = next /\ error' = error

ExitCodes == {0, 1}

\* seed, lines 228-237: identity overrides and step (a), git init + git add
GitInitAdd ==
    /\ pc = "written"
    /\ skipgit' = FALSE
    /\ \E gitname \in GitNameOpts, gitemail \in GitEmailOpts, rc \in ExitCodes :
         /\ env' = [GIT_AUTHOR_NAME |-> IF gitname # None THEN gitname ELSE env.GIT_AUTHOR_NAME,
                    GIT_COMMITTER_NAME |-> IF gitname # None THEN gitname ELSE env.GIT_COMMITTER_NAME,
                    GIT_AUTHOR_EMAIL |-> IF gitemail # None THEN gitemail ELSE env.GIT_AUTHOR_EMAIL,
                    GIT_COMMITTER_EMAIL |-> IF gitemail # None THEN gitemail ELSE env.GIT_COMMITTER_EMAIL]
         /\ runcmd(<<"git init && git add", [i \in DOMAIN tgts |-> RelPath(tgts[i])]>>, rc, "staged")
    /\ UNCHANGED <<repoArgs, repo, config, title, user, project, clean, dirs0, fs0, dirs,
                   fs, tgts, stdout>>

\* seed, lines 238-239: step (b), git branch -M + git commit
GitBranchCommit ==
    /\ pc = "staged"
    /\ \E rc \in ExitCodes :
         runcmd(<<"git branch -M && git commit", <<P.git_main_branch>>>>, rc, "committed")
    /\ UNCHANGED <<repoArgs, repo, config, title, user, project, clean, dirs0, fs0, dirs,
                   fs, tgts, skipgit, env, stdout>>

\* seed, lines 240-255
PrintNextSteps ==
    /\ pc = "committed"
    /\ stdout' = Append(stdout, "NEXT STEPS")
    /\ pc' = "done"
    /\ UNCHANGED <<error, repoArgs, repo, config, title, user, project, clean, dirs0, fs0,
                   dirs, fs, tgts, skipgit, env, gitlog>>

\* seed, lines 260-261
SkipGit ==
    /\ pc = "written"
    /\ skipgit' = TRUE
    /\ stdout' = Append(stdout, "no git commands have been run")
    /\ pc' = "done"
    /\ UNCHANGED <<error, repoArgs, repo, config, title, user, project, clean, dirs0, fs0,
                   dirs, fs, tgts, env, gitlog>>

Next ==
    \/ ParseArgs
    \/ Resolve
    \/ PrepareOutdir
    \/ WriteProjectFiles
    \/ CreateInputData
    \/ CreateCurationTables
    \/ CreatePurl
    \/ create_purl_config
    \/ create_readme
    \/ create_output_file
    \/ create_run_script
    \/ create_makefile
    \/ create_ontodev_tables
    \/ GitInitAdd
    \/ GitBranchCommit
    \/ PrintNextSteps
    \/ SkipGit

Spec == Init /\ [][Next]_vars

\* ------------------------------------------------------- position of a run
PcOrder == <<"start", "parsed", "resolved", "outdir", "input_data", "curation_tables",
             "purl", "purl_config", "readme", "output_file", "run_script", "makefile",
             "ontodev_tables", "written", "staged", "committed", "done">>
Pos(l) == CHOOSE i \in DOMAIN PcOrder : PcOrder[i] = l
\* the statement that runs next, or the one that raised
At == IF pc # "failed" THEN Pos(pc)
      ELSE CASE error = "max one repo" -> Pos("start")
             [] error = "config" -> Pos("parsed")
             [] gitlog = <<>> -> Pos("ontodev_tables")
             [] OTHER -> Pos("written") + Len(gitlog) - 1
Past(l) == At > Pos(l)
Reached(l) == At >= Pos(l)
Resolved == project # None

InDoc(k) == config # None /\ k \in DOMAIN config[1]

\* ---------------------------------------------------------------- C1
Precedence(override, k) ==
    IF Truthy(override) THEN override[1]
    ELSE IF InDoc(k) THEN config[1][k][2]
    ELSE ""

\* C1: each of title, github_org and repo of the resolved descriptor equals
\* the override when the override is non-empty, otherwise the file's value
\* when a config file supplies the key, otherwise the default "".
C1_OverridePrecedence ==
    Resolved => /\ P.title = Precedence(title, "title")
                /\ P.github_org = Precedence(user, "github_org")
                /\ P.repo = Precedence(repo, "repo")

C1_Witness ==
    /\ Resolved
    /\ InDoc("title") /\ Truthy(title) /\ P.title = title[1]
    /\ InDoc("github_org") /\ ~Truthy(user) /\ P.github_org = "Of"
    /\ ~InDoc("repo") /\ ~Truthy(repo) /\ P.repo = ""

\* ---------------------------------------------------------------- C2
BeforeFallback == load_config(config, title, user, repo).project

\* an unset id reads as the empty text
IdText(o) == IF o = None THEN "" ELSE o[1]

\* C2: an id that is empty after file values and overrides is set to the
\* resolved repo field, another id is left unchanged, and so the id is
\* non-empty whenever the resolved repo is non-empty.
C2_IdFallsBackToResolvedRepo ==
    Resolved => /\ IF BeforeFallback.id \in {None, Some("")}
                     THEN IdText(P.id) = P.repo
                     ELSE P.id = BeforeFallback.id
                /\ (P.repo # "" => Truthy(P.id))

\* ---------------------------------------------------------------- C3
InitialEnv == [GIT_AUTHOR_NAME |-> None, GIT_COMMITTER_NAME |-> None,
               GIT_AUTHOR_EMAIL |-> None, GIT_COMMITTER_EMAIL |-> None]

\* C3: a run given two or more positional repo arguments ends in the fatal
\* usage error with no config loaded, outdir untouched, nothing written,
\* no git command run and the environment unchanged.
C3_TooManyReposFailsFirst ==
    Len(repoArgs) >= 2 =>
        /\ pc = "failed" /\ error = "max one repo"
        /\ project = None /\ config = None
        /\ dirs = dirs0 /\ fs = fs0 /\ tgts = <<>>
        /\ gitlog = <<>> /\ env = InitialEnv /\ stdout = <<>>

C3_Witness == Len(repoArgs) >= 2 /\ pc = "failed" /\ DOMAIN fs0 # {}

\* ---------------------------------------------------------------- C4
IsPrefix(a, b) == Len(a) <= Len(b) /\ SubSeq(b, 1, Len(a)) = a

RECURSIVE IsSubseq(_, _)
IsSubseq(a, b) ==
    IF a = <<>> THEN TRUE
    ELSE IF b = <<>> THEN FALSE
    ELSE IF Head(a) = Head(b) THEN IsSubseq(Tail(a), Tail(b))
    ELSE IsSubseq(a, Tail(b))

PlannedOrder(x, export) ==
    (IF export THEN <<<<".", "project.yaml">>>> ELSE <<>>)
    \o <<<<".", x \o "_project_config.yaml">>,
         <<"curation_tables", "README.md">>,
         <<"purl", "README.md">>,
         <<"purl", x \o ".yml">>,
         <<".", "README.md">>,
         <<".", x \o ".json">>,
         <<".", "run.sh">>,
         <<".", "Makefile">>,
         <<".", "ontodev.Makefile">>,
         <<"curation_tables", "table.tsv">>,
         <<"curation_tables", "column.tsv">>,
         <<"curation_tables", "datatype.tsv">>,
         <<"curation_tables", "prefix.tsv">>,
         <<"curation_tables", "import.tsv">>,
         <<"curation_tables", "import_config.tsv">>,
         <<"curation_tables", x \o "_config.tsv">>>>

ManifestInOrder ==
    /\ IsSubseq(PlannedOrder(X, P.export_project_yaml), tgts)
    /\ (<<".", "project.yaml">> \in Range(tgts) <=> P.export_project_yaml)
    /\ <<".", X \o "_project_config.yaml">> \in Range(tgts)

\* C4: the manifest only grows by appending, and at the end of a successful
\* run with id X it holds the planned paths in the planned relative order,
\* project.yaml exactly when export_project_yaml, X_project_config.yaml always.
C4_ManifestOrder ==
    [][IsPrefix(tgts, tgts') /\ (pc' = "done" => ManifestInOrder')]_vars

C4_Witness ==
    /\ pc = "done" /\ P.export_project_yaml /\ config # None
    /\ tgts[1] = <<".", "project.yaml">>

\* ---------------------------------------------------------------- C5
Under(d, paths) == {p \in paths : p[1] = d}
\* the files of directory d that this run wrote
WrittenUnder(d) == {p \in Under(d, DOMAIN fs) : clean \/ p \notin DOMAIN fs0 \/ fs[p] # fs0[p]}
ReadmeListed(d) == FolderReadme(d) \in DOMAIN fs /\ FolderReadme(d) \in Range(tgts)

\* C5 as claimed: input_data/ is created empty, nothing is written in it and
\* no manifest path lies under it, while curation_tables/ and purl/ each get
\* a README that is in the manifest.
C5_InputDataEmpty ==
    /\ Past("input_data") => /\ "input_data" \in dirs
                             /\ WrittenUnder("input_data") = {}
                             /\ Under("input_data", Range(tgts)) = {}
    /\ Past("curation_tables") => ReadmeListed("curation_tables")
    /\ Past("purl") => ReadmeListed("purl")

\* C5 amended: input_data/ is created with a README.md, "# Input Files"
\* and "Taxonomy data files.", which is the one file written in it and the
\* one manifest path under it; curation_tables/ and purl/ get theirs too.
C5_InputDataReadme ==
    /\ Past("input_data") =>
           /\ "input_data" \in dirs
           /\ WrittenUnder("input_data") = {<<"input_data", "README.md">>}
           /\ fs[<<"input_data", "README.md">>] = "# Input Files\n\nTaxonomy data files."
           /\ Under("input_data", Range(tgts)) = {<<"input_data", "README.md">>}
    /\ Past("curation_tables") => ReadmeListed("curation_tables")
    /\ Past("purl") => ReadmeListed("purl")

C5_Witness ==
    /\ pc = "done"
    /\ <<"input_data", "README.md">> \in Range(tgts)
    /\ <<"input_data", "old.csv">> \in DOMAIN fs

\* ---------------------------------------------------------------- C6
SuppliedDescription == IF InDoc("description") THEN config[1]["description"][2] ELSE ""

\* C6: at the end of a run README.md is "# {title}({id})\n\n{body}." with
\* body the description when one was supplied and non-empty, and the title
\* otherwise.
C6_ReadmeBody ==
    pc = "done" =>
        fs[ReadmePath] = "# " \o P.title \o "(" \o Fmt(P.id) \o ")\n\n"
                             \o (IF SuppliedDescription # "" THEN SuppliedDescription
                                 ELSE P.title)
                             \o "."

\* ---------------------------------------------------------------- C7
GeneratedDirs == {".", "input_data", "curation_tables", "purl"}

StepA(e) == e.cmd[1] = "git init && git add"
StepB(e) == e.cmd[1] = "git branch -M && git commit"
NextSteps == "NEXT STEPS" \in Range(stdout)

\* C8: with --skipgit no git command runs; otherwise step (a) runs once,
\* on the relative paths of the complete and written manifest, step (b)
\* runs once and only after (a) exited 0, the instructions are printed only
\* after both exited 0, and a non-zero exit is fatal and ends the run.
C8_GitProtocol ==
    /\ skipgit => gitlog = <<>>
    /\ ~Reached("written") => gitlog = <<>>
    /\ Len(gitlog) <= 2
    /\ Len(gitlog) >= 1 =>
           /\ StepA(gitlog[1])
           /\ gitlog[1].cmd[2] = [i \in DOMAIN tgts |-> RelPath(tgts[i])]
           /\ Range(tgts) \subseteq DOMAIN fs
           /\ CurationPath(X \o "_config.tsv") \in Range(tgts)
    /\ Len(gitlog) = 2 => (StepB(gitlog[2]) /\ gitlog[1].rc = 0)
    /\ NextSteps => (Len(gitlog) = 2 /\ gitlog[1].rc = 0 /\ gitlog[2].rc = 0)
    /\ \A i \in DOMAIN gitlog :
           gitlog[i].rc # 0 => (i = Len(gitlog) /\ pc = "failed" /\ stdout = <<>>)

C8_Witness == Len(gitlog) = 2 /\ gitlog[2].rc # 0 /\ pc = "failed"

\* ---------------------------------------------------------------- C9
ReResolved == load_config(Some(fs[ConfigEchoPath(X)]), None, None, None)

\* C9: re-resolving from the config echo of a successful run, with no
\* overrides, gives back the run's descriptor in every field.
C9_RoundTrip ==
    pc = "done" => (ReResolved.ok /\ id_fallback(ReResolved.project, None) = P)

\* ---------------------------------------------------------------- C10
\* C10: at the end of a successful run each verbatim curation table holds
\* the content of its own resource and no path is in the manifest twice.
C10_DistinctPaths ==
    pc = "done" =>
        /\ \A i \in DOMAIN VerbatimTables :
               fs[CurationPath(VerbatimTables[i])] = Join(Resource(VerbatimTables[i]))
        /\ \A i, j \in DOMAIN tgts : i # j => tgts[i] # tgts[j]

====
